---- MODULE Spec2Model ----
(***************************************************************************)
(* Model of the agent loop of ai-agent-v2: Agent.run (src/agent/index.ts), *)
(* the SessionManager / MessageQueue it appends to, ToolRegistry.execute   *)
(* and the OpenAIProvider it calls.  One session is modelled; the CLI      *)
(* (CLI.start) awaits each input before reading the next, so the runs of   *)
(* the session follow one another.                                         *)
(***************************************************************************)
EXTENDS Integers, Sequences, FiniteSets, TLC

VARIABLES
    provider,     \* Agent.llmProvider: "openai" (OpenAIProvider) or "mock" (any other LLMProvider)
    maxLoop,      \* Agent.maxLoop
    sessions,     \* SessionManager.sessions has the session id
    queue,        \* MessageQueue.messages of the session (SessionManager.queues)
    pc,           \* position of Agent.run: idle, loop, awaitLLM, awaitTools, append, afterLoop
    runs,         \* number of Agent.run invocations so far
    i,            \* loop counter of Agent.run
    llmCalls,     \* number of llmProvider.generate calls of the current run
    llmInput,     \* fullMessages handed to the last generate call
    llmOutcome,   \* how the provider's exchange of the last generate call ended (HTTP outcome)
    llmResponse,  \* what the last generate call gave: [kind, content, tool_calls]
    finalResponse,\* local finalResponse of Agent.run (FALSE while null)
    tstate,       \* per tool call of the batch: "parsefail", "running", "done"
    results,      \* per tool call of the batch: [result, error] once settled
    executed,     \* indices of the batch for which ToolRegistry.execute was called
    appendIdx,    \* number of results of the batch already appended
    events,       \* events emitted by the current run, in order
    promise,      \* outcome of the last Agent.run: none, pending, null, or the response content
    \* a second invocation of Agent.run for the same session
    run2,         \* its position: none, loop, awaitLLM, returned
    llmCalls2,    \* its generate calls
    promise2,     \* its outcome: none, pending, null, or the response content
    \* one call of Compaction.compact
    maxTokens,    \* Compaction.maxTokens
    maxOutputTokens, \* Compaction.maxOutputTokens
    history,      \* the history handed to compact
    cpc,          \* position of compact: start, summarizing, done
    summary,      \* what summarizer returned: [threw, content], once it has
    lastSummaryMessage, \* Compaction.lastSummaryMessage (FALSE while null)
    compacted,    \* the history compact returned (<<>> until it has)
    \* the other components of the program, each on its own
    pruner,       \* one call of prune: its messages, settings, position, total and marks
    store,        \* MessageRepository rows of the session and what getMessages returned
    registry,     \* ToolRegistry.tools, McpManager.clients and the outcome of the last call
    bashProc,     \* one BashTool.runCommand: child process, timer, completed flag, promise
    inputHistory, \* InputHistory: history, index and the entries accepted so far
    mcpClient,    \* one McpClient: its process, its pending requests and their promises
    cli           \* CLI: running flag, position of the loop in start, lines read

run2vars == <<run2, llmCalls2, promise2>>
compactVars == <<maxTokens, maxOutputTokens, history, cpc, summary, lastSummaryMessage,
                 compacted>>
\* what a step of the first Agent.run leaves alone
componentVars == <<pruner, store, registry, bashProc, inputHistory, mcpClient, cli>>
others == <<run2vars, compactVars, componentVars>>

vars == <<provider, maxLoop, sessions, queue, pc, runs, i, llmCalls, llmInput,
          llmOutcome, llmResponse, finalResponse, tstate, results, executed, appendIdx,
          events, promise, run2vars, compactVars, componentVars>>

(***************************************************************************)
(* Bounds of the model                                                     *)
(***************************************************************************)
MaxLoopCfg == 2     \* maxLoop is configured in 1..MaxLoopCfg
MaxBatch == 2       \* an LLM response carries at most MaxBatch tool calls
MaxRuns == 2        \* queries typed into the CLI
MaxToolCalls == 2   \* tool calls requested by the LLM and recorded in the session

DefaultMaxLoop == 100

Providers == {"openai", "mock"}
Ids == {"c1", "c2"}
RegisteredTools == {"bash"}
Names == {"bash", "nope"}
\* argument strings: valid JSON matching the schema, valid JSON not matching it,
\* JSON with a raw newline in a string (repairable), and unrepairable text
Args == {"{ok}", "{badschema}", "{raw-newline}", "garbage"}
Contents == {"answer"}            \* content of a response without tool calls
Tips == {"tip"}                   \* content of a response with tool calls
Queries == {"query"}
SYSTEM_PROMPT == "system prompt"

NoMsgs == <<>>
NoResponse == [kind |-> "none", content |-> "", tool_calls |-> <<>>]

(***************************************************************************)
(* Messages                                                                *)
(***************************************************************************)
Msg(role, content, type, tool_call_id, tool_calls) ==
    [role |-> role, content |-> content, type |-> type,
     tool_call_id |-> tool_call_id, tool_calls |-> tool_calls]

userMessage(query) == Msg("user", query, "none", "none", <<>>)
systemMessage == Msg("system", SYSTEM_PROMPT, "none", "none", <<>>)
\* variant: the assistant message is stored without its tool_calls
toolCallMessage_noCalls(resp) == Msg("assistant", resp.content, "tool_call", "none", <<>>)
toolCallMessage(resp) == Msg("assistant", resp.content, "tool_call", "none", resp.tool_calls)
\* variant: the tool message is stored without the id of its call
toolMessage_noId(toolCall, result) == Msg("tool", result, "tool", "none", <<>>)
toolMessage(toolCall, result) == Msg("tool", result, "tool", toolCall.id, <<>>)
finalMessage(resp) == Msg("assistant", resp.content, "none", "none", <<>>)

(***************************************************************************)
(* MessageQueue and SessionManager                                         *)
(***************************************************************************)
\* variant: unshift instead of push
add_unshift(q, msg) == <<msg>> \o q
\* MessageQueue.add: push at the end
add(q, msg) == Append(q, msg)

\* MessageQueue.getAll: a copy of the messages, in order
getAll(q) == [k \in 1..Len(q) |-> q[k]]

\* SessionManager.addMessage: queue.add, then repository.save whose failure is
\* caught and logged; the in-memory queue is the same whether the save succeeds
addMessage(q, msg) == add(q, msg)

\* SessionManager.getMessages: the queue's copy (no load from the repository)
getMessages(q) == getAll(q)

(***************************************************************************)
(* JSON parsing, schemas and the tool registry                             *)
(***************************************************************************)
\* variant: the arguments are handed on without being parsed
JSONParseOk_lenient(a) == TRUE
\* JSON.parse succeeds on the argument string
JSONParseOk(a) == a \in {"{ok}", "{badschema}", "{escaped-newline}"}

\* tool.schema.safeParse(args).success
SchemaOk(a) == a \in {"{ok}", "{escaped-newline}"}

\* fixMalformedJson: valid JSON is returned as is, a raw newline inside a string
\* is escaped, anything else throws
fixMalformedJson(a) ==
    IF JSONParseOk(a) THEN [ok |-> TRUE, value |-> a]
    ELSE IF a = "{raw-newline}" THEN [ok |-> TRUE, value |-> "{escaped-newline}"]
    ELSE [ok |-> FALSE, value |-> a]

ToolCall(id, name, arguments) == [id |-> id, name |-> name, arguments |-> arguments]

\* the calls an LLM response may request: a registered tool with any arguments,
\* an unregistered name with well-formed or with unparseable arguments
ToolCalls(args) ==
    {ToolCall(id, sh[1], sh[2]) :
        id \in Ids,
        sh \in {x \in Names \X args : x[1] \in RegisteredTools \/ x[2] \in {"{ok}", "garbage"}}}

Batches(args) == UNION {[1..n -> ToolCalls(args)] : n \in 1..MaxBatch}

\* variant: no check that the tool is registered
RegistryExecute_noLookup(name, args) ==
    IF ~SchemaOk(args) THEN "invalid" ELSE "invoke"
\* ToolRegistry.execute up to the call of tool.execute: "notfound" and "invalid"
\* are thrown, "invoke" means tool.execute(parsed.data) is called
RegistryExecute(name, args) ==
    IF name \notin RegisteredTools THEN "notfound"
    ELSE IF ~SchemaOk(args) THEN "invalid"
    ELSE "invoke"

ParseErrorResult ==
    [result |-> "Error: Failed to parse tool arguments. The JSON was malformed.",
     error |-> "Invalid JSON in tool parameters"]
ErrorResult(errorMsg) == [result |-> "Error: " \o errorMsg, error |-> errorMsg]
SuccessResult(out) == [result |-> out, error |-> "undefined"]
Pending == [result |-> "", error |-> "pending"]

\* The synchronous part of the callback of tool_calls.map for one call
StartState(tc) ==
    IF ~JSONParseOk(tc.arguments) THEN "done"
    ELSE IF RegistryExecute(tc.name, tc.arguments) = "invoke" THEN "running"
    ELSE "done"

StartResult(tc) ==
    IF ~JSONParseOk(tc.arguments) THEN ParseErrorResult
    ELSE IF RegistryExecute(tc.name, tc.arguments) = "notfound"
         THEN ErrorResult("Tool not found")
    ELSE IF RegistryExecute(tc.name, tc.arguments) = "invalid"
         THEN ErrorResult("Invalid arguments for tool")
    ELSE Pending

\* the calls of the batch that reach ToolRegistry.execute
ExecuteCalled(batch) == {k \in 1..Len(batch) : JSONParseOk(batch[k].arguments)}

(***************************************************************************)
(* LLM providers                                                           *)
(***************************************************************************)
Response(content, tool_calls) == [kind |-> "resp", content |-> content, tool_calls |-> tool_calls]

\* What the HTTP exchange of OpenAIProvider.generate can give: fetch throws, a
\* status that is not OK, or a body with content and tool calls
HttpOutcomes ==
    {[kind |-> k, content |-> "", tool_calls |-> <<>>] : k \in {"fetchThrows", "notOk"}}
    \cup [kind : {"ok"}, content : Contents, tool_calls : {<<>>}]
    \cup [kind : {"ok"}, content : Tips, tool_calls : Batches(Args)]

\* What another LLMProvider can give: null, a thrown error, or a response
MockArgs == {"{ok}", "{badschema}", "garbage"}
MockOutcomes ==
    {[kind |-> k, content |-> "", tool_calls |-> <<>>] : k \in {"null", "throw"}}
    \cup [kind : {"resp"}, content : Contents, tool_calls : {<<>>}]
    \cup [kind : {"resp"}, content : Tips, tool_calls : Batches(MockArgs)]

Outcomes(p) == IF p = "openai" THEN HttpOutcomes ELSE MockOutcomes

fixToolCalls(tcs) ==
    [k \in 1..Len(tcs) |->
        ToolCall(tcs[k].id, tcs[k].name, fixMalformedJson(tcs[k].arguments).value)]

\* OpenAIProvider.generate: every failure inside the try block (fetch, status,
\* fixMalformedJson) is caught and turned into a response whose content is the
\* error text and whose tool_calls is empty
OpenAIGenerate(http) ==
    IF http.kind \in {"fetchThrows", "notOk"}
    THEN Response("LLM API error: API request failed", <<>>)
    ELSE IF \E k \in 1..Len(http.tool_calls) : ~fixMalformedJson(http.tool_calls[k].arguments).ok
    THEN Response("LLM API error: Failed to fix malformed JSON", <<>>)
    ELSE Response(http.content, fixToolCalls(http.tool_calls))

generate(p, out) == IF p = "openai" THEN OpenAIGenerate(out) ELSE out

(***************************************************************************)
(* Events                                                                  *)
(***************************************************************************)
Event(name, error) == [name |-> name, error |-> error]
Failure(error) == Event("failure", error)
Success == Event("success", "")
End == Event("end", "")

\* tool calls requested so far that are still recorded in the queue
RECURSIVE Requested(_)
Requested(q) ==
    IF q = <<>> THEN 0 ELSE Len(q[1].tool_calls) + Requested(Tail(q))

(***************************************************************************)
(* Compaction (session/compaction.ts): token estimate and compact          *)
(***************************************************************************)
MaxHist == 4                \* length of the history handed to compact

TRIGGER_RATIO_PERCENT == 5  \* triggerRatio = 0.05
TARGET_RATIO_PERCENT == 75  \* targetRatio = 0.75
KEEP_RECENT_COUNT == 2
MESSAGE_OVERHEAD == 4       \* per message in calculateTotalUsage
SNAPSHOT_PREFIX_CHARS == 30 \* "[Historical Memory Snapshot]:\n"

\* A text is given by its number of CJK characters and of other characters
Text(zh, other) == [zh |-> zh, other |-> other]
length(text) == text.zh + text.other

EmptyText == Text(0, 0)
ShortText == Text(0, 4)
CjkText == Text(9596, 0)
MidText == Text(0, 40000)
HugeText == Text(0, 779984)
\* 'LLM API error: ' followed by the message of the error
ApiErrorText == Text(0, 33)

CMsg(role, type, content, uid) ==
    [role |-> role, type |-> type, content |-> content, uid |-> uid]

NoMessage == CMsg("none", "none", EmptyText, 0)

\* the messages a history is made of, before they are numbered
InputMessages ==
    {CMsg("system", "none", ShortText, 0)}
    \cup {CMsg("system", "summary", c, 0) : c \in {ShortText, MidText}}
    \cup {CMsg("user", "none", c, 0) : c \in {ShortText, CjkText}}
    \cup {CMsg("assistant", "none", c, 0) : c \in {ShortText, MidText}}
    \cup {CMsg("tool", "tool", c, 0) : c \in {MidText, HugeText}}

\* uid stands for the identity of the message object: its index in the input
Numbered(h) == [k \in 1..Len(h) |-> CMsg(h[k].role, h[k].type, h[k].content, k)]

Histories == UNION {{Numbered(h) : h \in [1..n -> InputMessages]} : n \in 0..MaxHist}

\* the configurations Compaction is constructed with
CompactionConfigs == {[maxTokens |-> 200000, maxOutputTokens |-> 8000]}

\* Compaction.estimate: ceil(chineseChars * 1.0 + otherChars * 0.25), 0 for ''
estimate(text) ==
    IF length(text) = 0 THEN 0 ELSE text.zh + (text.other + 3) \div 4

\* Compaction.calculateTotalUsage
RECURSIVE calculateTotalUsage(_)
calculateTotalUsage(messages) ==
    IF messages = <<>> THEN 0
    ELSE estimate(messages[1].content) + MESSAGE_OVERHEAD
         + calculateTotalUsage(Tail(messages))

usableLimit(mt, mo) == mt - mo

\* compact, lines 30-40: not (totalUsed < usableLimit * triggerRatio)
triggered(h, mt, mo) ==
    ~(calculateTotalUsage(h) * 100 < usableLimit(mt, mo) * TRIGGER_RATIO_PERCENT)

\* line 47
systemMessages(h) == SelectSeq(h, LAMBDA m : m.role = "system" /\ m.type # "summary")
\* line 52
otherMessages(h) == SelectSeq(h, LAMBDA m : ~(m.role = "system" /\ m.type # "summary"))

\* slice(-count) of a sequence
sliceLast(q, count) == SubSeq(q, IF Len(q) > count THEN Len(q) - count + 1 ELSE 1, Len(q))
\* slice(0, -count) of a sequence
sliceButLast(q, count) == SubSeq(q, 1, IF Len(q) > count THEN Len(q) - count ELSE 0)

\* variant: one message less is protected
activeMessages_short(h) == sliceLast(otherMessages(h), KEEP_RECENT_COUNT - 1)
\* line 56: the protected tail
activeMessages(h) == sliceLast(otherMessages(h), KEEP_RECENT_COUNT)

\* lines 57-64: the messages to summarize, without a leading previous summary
pendingMessages(h) ==
    LET pending == sliceButLast(otherMessages(h), KEEP_RECENT_COUNT) IN
    IF Len(pending) > 0 /\ pending[1].type = "summary" THEN Tail(pending) ELSE pending

\* Compaction.summarizer: the content of the response of OpenAIProvider.generate,
\* which is the error text when the request failed; nothing is thrown
summarizer(http, reply) ==
    [threw |-> FALSE,
     content |-> IF OpenAIGenerate(http).content = http.content THEN reply ELSE ApiErrorText]

\* lines 87-91
summaryMessage(content) ==
    CMsg("system", "summary", Text(content.zh, content.other + SNAPSHOT_PREFIX_CHARS), 0)

\* line 94
newHistory(h, content) ==
    systemMessages(h) \o <<summaryMessage(content)>> \o activeMessages(h)

\* lines 81-109: what compact returns once summarizer has settled
afterSummary(h, s, mt, mo) ==
    IF s.threw THEN h
    ELSE IF calculateTotalUsage(newHistory(h, s.content)) * 100
              > usableLimit(mt, mo) * TARGET_RATIO_PERCENT
         THEN sliceLast(newHistory(h, s.content), KEEP_RECENT_COUNT)
         ELSE newHistory(h, s.content)

(***************************************************************************)
(* The character-count Compaction (isOverflow and its estimate)            *)
(***************************************************************************)
CHARS_PER_TOKEN == 4
OVERFLOW_TOKENS == 204800   \* 200*1024

\* estimate of a text of len characters: Math.max(0, Math.round(len / CHARS_PER_TOKEN))
estimateLength(len) == (2 * len + CHARS_PER_TOKEN) \div (2 * CHARS_PER_TOKEN)

\* historyMessages.map(m => m.content).join("").length
RECURSIVE joinedLength(_)
joinedLength(messages) ==
    IF messages = <<>> THEN 0
    ELSE length(messages[1].content) + joinedLength(Tail(messages))

isOverflow(input, historyMessages) ==
    estimateLength(length(input)) + estimateLength(joinedLength(historyMessages))
        > OVERFLOW_TOKENS

NoSummary == [http |-> "none", threw |-> FALSE, content |-> EmptyText]

\* the components that take no part in a run of the agent
NoPruner == [pc |-> "none"]
NoStore == [rows |-> <<>>, got |-> <<>>, pc |-> "none"]
NoRegistry == [pc |-> "none"]
NoBashProc == [pc |-> "none"]
NoInputHistory == [pc |-> "none"]
NoMcpClient == [pc |-> "none"]
NoCli == [pc |-> "none"]

NoComponents ==
    /\ pruner = NoPruner
    /\ store = NoStore
    /\ registry = NoRegistry
    /\ bashProc = NoBashProc
    /\ inputHistory = NoInputHistory
    /\ mcpClient = NoMcpClient
    /\ cli = NoCli

NoRun2 == run2 = "none" /\ llmCalls2 = 0 /\ promise2 = "none"

NoCompaction ==
    /\ maxTokens = 0
    /\ maxOutputTokens = 0
    /\ history = <<>>
    /\ cpc = "none"
    /\ summary = NoSummary
    /\ lastSummaryMessage = NoMessage
    /\ compacted = <<>>

(***************************************************************************)
(* Initial state: an Agent constructed with its provider and maxLoop, no   *)
(* session yet                                                             *)
(***************************************************************************)
\* Agent constructor: config.maxLoop || 100
ConfiguredMaxLoop(cfg) == IF cfg = 0 THEN DefaultMaxLoop ELSE cfg

Init ==
    /\ provider \in Providers
    /\ maxLoop \in {ConfiguredMaxLoop(c) : c \in 1..MaxLoopCfg}
    /\ sessions = FALSE
    /\ queue = <<>>
    /\ pc = "idle"
    /\ runs = 0
    /\ i = 0
    /\ llmCalls = 0
    /\ llmInput = <<>>
    /\ llmOutcome = "none"
    /\ llmResponse = NoResponse
    /\ finalResponse = FALSE
    /\ tstate = <<>>
    /\ results = <<>>
    /\ executed = {}
    /\ appendIdx = 0
    /\ events = <<>>
    /\ promise = "none"
    /\ NoRun2
    /\ NoComponents
    /\ NoCompaction

(***************************************************************************)
(* Agent.run                                                               *)
(***************************************************************************)
\* run, lines 64-79: getOrCreateSession, addMessage(user), i = 0
RunStart ==
    /\ pc = "idle"
    /\ runs < MaxRuns
    /\ \E query \in Queries :
          queue' = addMessage(queue, userMessage(query))
    /\ sessions' = TRUE
    /\ runs' = runs + 1
    /\ i' = 0
    /\ llmCalls' = 0
    /\ finalResponse' = FALSE
    /\ llmOutcome' = "none"
    /\ llmResponse' = NoResponse
    /\ llmInput' = <<>>
    /\ tstate' = <<>>
    /\ results' = <<>>
    /\ executed' = {}
    /\ appendIdx' = 0
    /\ events' = <<>>
    /\ promise' = "pending"
    /\ pc' = "loop"
    /\ UNCHANGED <<provider, maxLoop, others>>

\* variant: the counter is not incremented
LoopHead_noIncrement ==
    /\ pc = "loop"
    /\ i < maxLoop
    /\ i' = i
    /\ llmInput' = <<systemMessage>> \o getMessages(queue)
    /\ llmCalls' = llmCalls + 1
    /\ pc' = "awaitLLM"
    /\ UNCHANGED <<provider, maxLoop, sessions, queue, runs, llmOutcome, llmResponse,
                   finalResponse, tstate, results, executed, appendIdx, events, promise, others>>

\* lines 81-99: while (i < maxLoop) { i++; history = getMessages(); generate(...)
LoopHead ==
    /\ pc = "loop"
    /\ i < maxLoop
    /\ i' = i + 1
    /\ llmInput' = <<systemMessage>> \o getMessages(queue)
    /\ llmCalls' = llmCalls + 1
    /\ pc' = "awaitLLM"
    /\ UNCHANGED <<provider, maxLoop, sessions, queue, runs, llmOutcome, llmResponse,
                   finalResponse, tstate, results, executed, appendIdx, events, promise, others>>

\* line 81 when the condition is false: leave the loop
LoopExit ==
    /\ pc = "loop"
    /\ ~(i < maxLoop)
    /\ pc' = "afterLoop"
    /\ UNCHANGED <<provider, maxLoop, sessions, queue, runs, i, llmCalls, llmInput,
                   llmOutcome, llmResponse, finalResponse, tstate, results, executed, appendIdx,
                   events, promise, others>>

\* variant: the finally block emits nothing
ReturnFailure_noEnd(error) ==
    /\ events' = events \o <<Failure(error)>>
    /\ promise' = "null"
    /\ pc' = "idle"

\* return null through the finally block: emit 'failure', then 'end'
ReturnFailure(error) ==
    /\ events' = events \o <<Failure(error), End>>
    /\ promise' = "null"
    /\ pc' = "idle"

\* variant: a null response is retried instead of ending the run
LLMNull_retry ==
    /\ pc = "awaitLLM"
    /\ \E out \in Outcomes(provider) :
          /\ generate(provider, out).kind = "null"
          /\ llmOutcome' = out.kind
          /\ llmResponse' = generate(provider, out)
    /\ pc' = "loop"
    /\ UNCHANGED <<provider, maxLoop, sessions, queue, runs, i, llmCalls, llmInput,
                   finalResponse, tstate, results, executed, appendIdx, events, promise, others>>

\* lines 103-107: generate gave null
LLMNull ==
    /\ pc = "awaitLLM"
    /\ \E out \in Outcomes(provider) :
          /\ generate(provider, out).kind = "null"
          /\ llmOutcome' = out.kind
          /\ llmResponse' = generate(provider, out)
    /\ ReturnFailure("LLM returned null response")
    /\ UNCHANGED <<provider, maxLoop, sessions, queue, runs, i, llmCalls, llmInput,
                   finalResponse, tstate, results, executed, appendIdx, others>>

\* lines 211-218: generate threw, caught by the catch of run
LLMThrows ==
    /\ pc = "awaitLLM"
    /\ \E out \in Outcomes(provider) :
          /\ generate(provider, out).kind = "throw"
          /\ llmOutcome' = out.kind
          /\ llmResponse' = generate(provider, out)
    /\ ReturnFailure("LLM threw")
    /\ UNCHANGED <<provider, maxLoop, sessions, queue, runs, i, llmCalls, llmInput,
                   finalResponse, tstate, results, executed, appendIdx, others>>

\* lines 110-163: the response carries tool calls: append the assistant message
\* and start every call of the batch
LLMToolCalls ==
    /\ pc = "awaitLLM"
    /\ \E out \in Outcomes(provider) :
          LET resp == generate(provider, out) IN
          /\ resp.kind = "resp"
          /\ Len(resp.tool_calls) > 0
          /\ Requested(queue) + Len(resp.tool_calls) <= MaxToolCalls
          /\ llmOutcome' = out.kind
          /\ llmResponse' = resp
          /\ queue' = addMessage(queue, toolCallMessage(resp))
          /\ tstate' = [k \in 1..Len(resp.tool_calls) |-> StartState(resp.tool_calls[k])]
          /\ results' = [k \in 1..Len(resp.tool_calls) |-> StartResult(resp.tool_calls[k])]
          /\ executed' = ExecuteCalled(resp.tool_calls)
    /\ appendIdx' = 0
    /\ pc' = "awaitTools"
    /\ UNCHANGED <<provider, maxLoop, sessions, runs, i, llmCalls, llmInput,
                   finalResponse, events, promise, others>>

\* lines 147-162: tool.execute of call k returns its output or throws / rejects
ToolSettles(k) ==
    /\ pc = "awaitTools"
    /\ k \in 1..Len(tstate)
    /\ tstate[k] = "running"
    /\ \E r \in {SuccessResult("tool output"), ErrorResult("tool failed")} :
          results' = [results EXCEPT ![k] = r]
    /\ tstate' = [tstate EXCEPT ![k] = "done"]
    /\ UNCHANGED <<provider, maxLoop, sessions, queue, pc, runs, i, llmCalls, llmInput,
                   llmOutcome, llmResponse, finalResponse, executed, appendIdx, events, promise, others>>

\* variant: each promise is awaited and appended in turn
NextSettled(ts, idx) == idx \in 1..Len(ts) /\ ts[idx] = "done"

\* line 166: Promise.all(toolPromises) has resolved
AllSettled(ts, idx) == \A k \in 1..Len(ts) : ts[k] = "done"

\* lines 166-181: after Promise.all, append the next result in request order;
\* after the last one, continue with the next iteration
AppendResult ==
    /\ pc = "awaitTools"
    /\ AllSettled(tstate, appendIdx + 1)
    /\ appendIdx < Len(tstate)
    /\ queue' = addMessage(queue, toolMessage(llmResponse.tool_calls[appendIdx + 1],
                                               results[appendIdx + 1].result))
    /\ appendIdx' = appendIdx + 1
    /\ pc' = IF appendIdx + 1 = Len(tstate) THEN "loop" ELSE "awaitTools"
    /\ UNCHANGED <<provider, maxLoop, sessions, runs, i, llmCalls, llmInput,
                   llmOutcome, llmResponse, finalResponse, tstate, results, executed, events, promise, others>>

\* lines 184-196: no tool calls: append the final assistant message and break
LLMFinal ==
    /\ pc = "awaitLLM"
    /\ \E out \in Outcomes(provider) :
          LET resp == generate(provider, out) IN
          /\ resp.kind = "resp"
          /\ Len(resp.tool_calls) = 0
          /\ llmOutcome' = out.kind
          /\ llmResponse' = resp
          /\ queue' = addMessage(queue, finalMessage(resp))
    /\ finalResponse' = TRUE
    /\ pc' = "afterLoop"
    /\ UNCHANGED <<provider, maxLoop, sessions, runs, i, llmCalls, llmInput,
                   tstate, results, executed, appendIdx, events, promise, others>>

\* lines 199-203: i >= maxLoop after the loop
MaxIterations ==
    /\ pc = "afterLoop"
    /\ i >= maxLoop
    /\ ReturnFailure("Max iterations reached")
    /\ UNCHANGED <<provider, maxLoop, sessions, queue, runs, i, llmCalls, llmInput,
                   llmOutcome, llmResponse, finalResponse, tstate, results, executed, appendIdx, others>>

\* lines 205-209: emit 'success' and return finalResponse
ReturnFinal ==
    /\ pc = "afterLoop"
    /\ ~(i >= maxLoop)
    /\ events' = IF finalResponse THEN events \o <<Success, End>> ELSE events \o <<End>>
    /\ promise' = IF finalResponse THEN llmResponse.content ELSE "null"
    /\ pc' = "idle"
    /\ UNCHANGED <<provider, maxLoop, sessions, queue, runs, i, llmCalls, llmInput,
                   llmOutcome, llmResponse, finalResponse, tstate, results, executed, appendIdx, others>>

\* Agent.clearSession -> SessionManager.deleteSession (the /clear command)
clearSession ==
    /\ pc = "idle"
    /\ sessions
    /\ sessions' = FALSE
    /\ queue' = <<>>
    /\ UNCHANGED <<provider, maxLoop, pc, runs, i, llmCalls, llmInput, llmOutcome, llmResponse,
                   finalResponse, tstate, results, executed, appendIdx, events, promise, others>>

RunStep ==
    \/ LoopHead
    \/ LoopExit
    \/ LLMNull
    \/ LLMThrows
    \/ LLMToolCalls
    \/ \E k \in 1..MaxBatch : ToolSettles(k)
    \/ AppendResult
    \/ LLMFinal
    \/ MaxIterations
    \/ ReturnFinal

Next ==
    \/ RunStart
    \/ RunStep
    \/ clearSession

Spec == Init /\ [][Next]_vars

\* every LLM call and every tool call returns, and the event loop runs the
\* continuation of every settled promise
FairSpec == Spec /\ WF_vars(RunStep)

(***************************************************************************)
(* A second invocation of Agent.run for the same session, made while the   *)
(* first is suspended at an await.  run takes no lock and keeps no record  *)
(* of a run in progress; the second invocation is followed up to its first  *)
(* LLM response.                                                           *)
(***************************************************************************)
\* run, lines 64-79, entered while the first invocation awaits the LLM or a tool
Run2Start ==
    /\ run2 = "none"
    /\ pc \in {"awaitLLM", "awaitTools"}
    /\ \E query \in Queries :
          queue' = addMessage(queue, userMessage(query))
    /\ run2' = "loop"
    /\ promise2' = "pending"
    /\ UNCHANGED <<provider, maxLoop, sessions, pc, runs, i, llmCalls, llmInput, llmOutcome,
                   llmResponse, finalResponse, tstate, results, executed, appendIdx, events,
                   promise, llmCalls2, compactVars, componentVars>>

\* lines 81-99 of the second invocation: its first iteration calls the LLM
Run2LoopHead ==
    /\ run2 = "loop"
    /\ 0 < maxLoop
    /\ llmCalls2' = llmCalls2 + 1
    /\ run2' = "awaitLLM"
    /\ UNCHANGED <<provider, maxLoop, sessions, queue, pc, runs, i, llmCalls, llmInput,
                   llmOutcome, llmResponse, finalResponse, tstate, results, executed, appendIdx,
                   events, promise, promise2, compactVars, componentVars>>

\* lines 103-107 and 211-218 of the second invocation: null or thrown
Run2LLMFails ==
    /\ run2 = "awaitLLM"
    /\ \E out \in Outcomes(provider) :
          /\ generate(provider, out).kind \in {"null", "throw"}
          /\ events' = events \o
                <<Failure(IF generate(provider, out).kind = "null"
                          THEN "LLM returned null response" ELSE "LLM threw"), End>>
    /\ promise2' = "null"
    /\ run2' = "returned"
    /\ UNCHANGED <<provider, maxLoop, sessions, queue, pc, runs, i, llmCalls, llmInput,
                   llmOutcome, llmResponse, finalResponse, tstate, results, executed, appendIdx,
                   promise, llmCalls2, compactVars, componentVars>>

\* lines 184-209 of the second invocation: a final answer in its first iteration
Run2LLMFinal ==
    /\ run2 = "awaitLLM"
    /\ \E out \in Outcomes(provider) :
          LET resp == generate(provider, out) IN
          /\ resp.kind = "resp"
          /\ Len(resp.tool_calls) = 0
          /\ queue' = addMessage(queue, finalMessage(resp))
          /\ events' = IF 1 >= maxLoop
                       THEN events \o <<Failure("Max iterations reached"), End>>
                       ELSE events \o <<Success, End>>
          /\ promise2' = IF 1 >= maxLoop THEN "null" ELSE resp.content
    /\ run2' = "returned"
    /\ UNCHANGED <<provider, maxLoop, sessions, pc, runs, i, llmCalls, llmInput,
                   llmOutcome, llmResponse, finalResponse, tstate, results, executed, appendIdx,
                   promise, llmCalls2, compactVars, componentVars>>

Run2Step ==
    \/ Run2Start
    \/ Run2LoopHead
    \/ Run2LLMFails
    \/ Run2LLMFinal

\* the first caller invokes run once
Run1Start == runs = 0 /\ RunStart

NextConc ==
    \/ Run1Start
    \/ RunStep
    \/ Run2Step

\* two callers of run on one Agent and one session, with no serialisation
ConcSpec == Init /\ [][NextConc]_vars

\* C11: the second invocation of run for a session appends no message and makes
\* no LLM call before the first invocation has returned
C11_OneRunPerSession ==
    (run2 # "none" \/ llmCalls2 > 0) => promise \notin {"none", "pending"}

(***************************************************************************)
(* Properties                                                              *)
(***************************************************************************)
IsPrefix(s, t) == Len(s) <= Len(t) /\ SubSeq(t, 1, Len(s)) = s

batch == llmResponse.tool_calls
N == Len(llmResponse.tool_calls)
Returned == pc = "idle" /\ promise \notin {"none", "pending"}
\* position in the queue of the result of the k-th call of the current batch
ResultPos(k) == Len(queue) - appendIdx + k
Malformed(a) == a \in {"garbage", "{raw-newline}"}

\* C1: a run makes at most maxLoop LLM calls; a run in which every response
\* carried tool calls has returned null with the 'failure' event "Max iterations
\* reached" after exactly maxLoop LLM calls; and every run that was started
\* returns.
C1_BoundedInv ==
    /\ llmCalls <= maxLoop
    /\ (Returned /\ N > 0) =>
          /\ promise = "null"
          /\ events = <<Failure("Max iterations reached"), End>>
          /\ llmCalls = maxLoop

C1_Bounded == []C1_BoundedInv /\ ((promise = "pending") ~> Returned)

C1_Witness == Returned /\ N > 0 /\ maxLoop >= 2 /\ llmCalls = maxLoop

\* C2: for a response with N tool calls, the queue ends with the assistant
\* message followed by the results appended so far, the j-th of them carrying
\* the id of the j-th call; once the batch is over exactly N were appended.
C2_ResultsInOrder ==
    (pc # "idle" /\ N > 0) =>
        /\ appendIdx <= N
        /\ Len(queue) >= appendIdx + 1
        /\ queue[Len(queue) - appendIdx].role = "assistant"
        /\ queue[Len(queue) - appendIdx].tool_calls = batch
        /\ \A j \in 1..appendIdx :
              /\ queue[ResultPos(j)].role = "tool"
              /\ queue[ResultPos(j)].tool_call_id = batch[j].id
        /\ (pc # "awaitTools" => appendIdx = N)

C2_Witness ==
    /\ pc = "loop" /\ N = 2 /\ appendIdx = 2
    /\ batch[1].id # batch[2].id
    /\ results[1].error = "tool failed"
    /\ results[2].error = "undefined"

\* C3: in a batch, a call to an unregistered tool, with arguments that fail the
\* schema, or whose execution throws gets an error text as its own result; every
\* other call is executed and gets its own result; the run goes on.
C3_FailuresIsolated ==
    (pc # "idle" /\ N > 0) =>
        /\ \A k \in 1..N :
              LET tc == batch[k] IN
              /\ (tc.arguments \in {"{ok}", "{badschema}", "{escaped-newline}"}
                    /\ tc.name \notin RegisteredTools)
                 => (tstate[k] = "done" /\ results[k] = ErrorResult("Tool not found"))
              /\ (tc.arguments = "{badschema}" /\ tc.name \in RegisteredTools)
                 => (tstate[k] = "done"
                     /\ results[k] = ErrorResult("Invalid arguments for tool"))
              /\ (tc.arguments \in {"{ok}", "{escaped-newline}"}
                    /\ tc.name \in RegisteredTools)
                 => /\ k \in executed
                    /\ tstate[k] \in {"running", "done"}
                    /\ tstate[k] = "done" =>
                          results[k] \in {SuccessResult("tool output"),
                                          ErrorResult("tool failed")}
              /\ k <= appendIdx => queue[ResultPos(k)].content = results[k].result
        /\ (pc \in {"awaitTools", "loop", "awaitLLM"}
              => promise = "pending" /\ events = <<>>)
        /\ (pc = "afterLoop" => i >= maxLoop)

C3_Witness ==
    /\ pc = "awaitLLM" /\ N = 2 /\ appendIdx = 2
    /\ results[1].error \in {"Tool not found", "Invalid arguments for tool", "tool failed"}
    /\ results[2] = SuccessResult("tool output")
    /\ queue[Len(queue)].content = "tool output"

\* C4: a call whose arguments are not valid JSON never reaches
\* ToolRegistry.execute, gets the parse-error text as its result, does not make
\* the run fail, and the next LLM call is given a history with that result.
C4_MalformedArguments ==
    \A k \in 1..N :
        (pc # "idle" /\ Malformed(batch[k].arguments)) =>
            /\ k \notin executed
            /\ tstate[k] = "done"
            /\ results[k] = ParseErrorResult
            /\ (pc \in {"awaitTools", "loop", "awaitLLM"}
                  => promise = "pending" /\ events = <<>>)
            /\ (pc = "awaitLLM" =>
                  llmInput[Len(llmInput) - N + k]
                      = Msg("tool", ParseErrorResult.result, "tool", batch[k].id, <<>>))

C4_Witness ==
    /\ pc = "awaitLLM" /\ N = 2
    /\ Malformed(batch[1].arguments)
    /\ 2 \in executed

\* C5: a response without tool calls, in any iteration up to the maxLoop-th,
\* ends the run with success: one assistant message with its content is
\* appended, the response with that content is returned and 'success' is emitted.
C5_FinalAnswerSucceeds ==
    (Returned /\ llmResponse.kind = "resp" /\ N = 0) =>
        /\ promise = llmResponse.content
        /\ events = <<Success, End>>

\* C6: when generate returns null or throws, the run has returned null at once:
\* no later LLM call, no message appended in that iteration, and the queue still
\* holds every message that was appended before.
C6_LLMFailureEndsRun ==
    llmResponse.kind \in {"null", "throw"} =>
        /\ pc = "idle"
        /\ promise = "null"
        /\ Len(events) = 2 /\ events[1].name = "failure" /\ events[2] = End
        /\ llmCalls = i
        /\ sessions => queue = Tail(llmInput)

C6_Witness ==
    /\ llmResponse.kind \in {"null", "throw"}
    /\ sessions
    /\ Len(queue) >= 3
    /\ queue[Len(queue)].role = "tool"

\* C7: when the HTTP request of OpenAIProvider.generate fails, the run returns
\* null and no assistant message is appended for that call.
C7_HttpFailureIsHardFailure ==
    (provider = "openai" /\ llmOutcome \in {"fetchThrows", "notOk"}) =>
        /\ pc = "idle"
        /\ promise = "null"
        /\ sessions => queue = Tail(llmInput)

\* C8: while a tool call of the batch is still running, no result of the batch
\* has been appended: the queue still ends with the assistant message.
C8_NoPartialAppend ==
    (pc = "awaitTools" /\ \E k \in 1..N : tstate[k] = "running") =>
        /\ appendIdx = 0
        /\ queue[Len(queue)] = Msg("assistant", llmResponse.content, "tool_call", "none", batch)

C8_Witness ==
    /\ pc = "awaitTools" /\ N = 2
    /\ tstate[1] = "running"
    /\ tstate[2] = "done" /\ results[2] = SuccessResult("tool output")

C10_AppendOnly == [][clearSession \/ IsPrefix(queue, queue')]_vars

C10_Witness ==
    /\ pc = "awaitTools" /\ appendIdx = 1 /\ N = 2
    /\ Len(queue) >= 4


(***************************************************************************)
(* One call of Compaction.compact on every history up to MaxHist messages  *)
(***************************************************************************)
\* the HTTP exchange of the summarizer's call of OpenAIProvider.generate
SummarizerOutcomes ==
    {[kind |-> k, content |-> "", tool_calls |-> <<>>] : k \in {"fetchThrows", "notOk"}}
    \cup {[kind |-> "ok", content |-> "summary", tool_calls |-> <<>>]}

\* the text of the summary the model writes
Replies == {EmptyText, ShortText, MidText}

\* a Compaction constructed with its limits, and the history compact is called with
InitCompact ==
    /\ provider = "openai"
    /\ maxLoop = DefaultMaxLoop
    /\ sessions = FALSE
    /\ queue = <<>>
    /\ pc = "idle"
    /\ runs = 0
    /\ i = 0
    /\ llmCalls = 0
    /\ llmInput = <<>>
    /\ llmOutcome = "none"
    /\ llmResponse = NoResponse
    /\ finalResponse = FALSE
    /\ tstate = <<>>
    /\ results = <<>>
    /\ executed = {}
    /\ appendIdx = 0
    /\ events = <<>>
    /\ promise = "none"
    /\ NoRun2
    /\ NoComponents
    /\ \E cfg \in CompactionConfigs :
          /\ maxTokens = cfg.maxTokens
          /\ maxOutputTokens = cfg.maxOutputTokens
    /\ history \in Histories
    /\ cpc = "start"
    /\ summary = NoSummary
    /\ lastSummaryMessage = NoMessage
    /\ compacted = <<>>

agentVars == <<provider, maxLoop, sessions, queue, pc, runs, i, llmCalls, llmInput, llmOutcome,
               llmResponse, finalResponse, tstate, results, executed, appendIdx, events, promise,
               run2vars>>

\* lines 30-40: below the trigger, return history
CompactBelowTrigger ==
    /\ cpc = "start"
    /\ ~triggered(history, maxTokens, maxOutputTokens)
    /\ compacted' = history
    /\ cpc' = "returned"
    /\ UNCHANGED <<agentVars, componentVars, maxTokens, maxOutputTokens, history, summary, lastSummaryMessage>>

\* lines 51-54: no more than KEEP_RECENT_COUNT messages besides the system ones
CompactNothingPending ==
    /\ cpc = "start"
    /\ triggered(history, maxTokens, maxOutputTokens)
    /\ Len(otherMessages(history)) <= KEEP_RECENT_COUNT
    /\ compacted' = history
    /\ cpc' = "returned"
    /\ UNCHANGED <<agentVars, componentVars, maxTokens, maxOutputTokens, history, summary, lastSummaryMessage>>

\* lines 56-85: split the history and await summarizer
CompactSummarize ==
    /\ cpc = "start"
    /\ triggered(history, maxTokens, maxOutputTokens)
    /\ Len(otherMessages(history)) > KEEP_RECENT_COUNT
    /\ cpc' = "summarizing"
    /\ UNCHANGED <<agentVars, componentVars, maxTokens, maxOutputTokens, history, summary, lastSummaryMessage,
                   compacted>>

\* variant: the input array is spliced to the compacted history
SummarizerSettles_inPlace ==
    /\ cpc = "summarizing"
    /\ \E http \in SummarizerOutcomes, reply \in Replies :
          LET s == summarizer(http, reply) IN
          /\ summary' = [http |-> http.kind, threw |-> s.threw, content |-> s.content]
          /\ lastSummaryMessage' = IF s.threw THEN lastSummaryMessage
                                   ELSE summaryMessage(s.content)
          /\ compacted' = afterSummary(history, s, maxTokens, maxOutputTokens)
          /\ history' = afterSummary(history, s, maxTokens, maxOutputTokens)
    /\ cpc' = "returned"
    /\ UNCHANGED <<agentVars, componentVars, maxTokens, maxOutputTokens>>

\* lines 81-109: summarizer settles, compact returns
SummarizerSettles ==
    /\ cpc = "summarizing"
    /\ \E http \in SummarizerOutcomes, reply \in Replies :
          LET s == summarizer(http, reply) IN
          /\ summary' = [http |-> http.kind, threw |-> s.threw, content |-> s.content]
          /\ lastSummaryMessage' = IF s.threw THEN lastSummaryMessage
                                   ELSE summaryMessage(s.content)
          /\ compacted' = afterSummary(history, s, maxTokens, maxOutputTokens)
    /\ cpc' = "returned"
    /\ UNCHANGED <<agentVars, componentVars, maxTokens, maxOutputTokens, history>>

NextCompact ==
    \/ CompactBelowTrigger
    \/ CompactNothingPending
    \/ CompactSummarize
    \/ SummarizerSettles

CompactSpec == InitCompact /\ [][NextCompact]_vars

\* the summarizer was called and compact has returned
Summarized == cpc = "returned" /\ summary.http # "none"
\* ... and the summarizer's LLM call succeeded
SummarizedOk == Summarized /\ summary.http = "ok"

Has(h, m) == \E k \in 1..Len(h) : h[k] = m

\* C12: when the summarizer's LLM call fails, compact returns its input
\* unmodified and creates no summary message
C12_SummarizerFailureKeepsHistory ==
    (Summarized /\ summary.http # "ok") =>
        (compacted = history /\ lastSummaryMessage = NoMessage)

\* C13: every user message and every system message that is not a summary is
\* still in the history compact returns
C13_UserAndSystemKept ==
    cpc = "returned" =>
        \A k \in 1..Len(history) :
            (history[k].role = "user" \/ (history[k].role = "system" /\ history[k].type # "summary"))
                => Has(compacted, history[k])

\* C14: after a successful summarization the returned history is the input
\* with one contiguous range replaced by the one new summary message
C14_OneSummaryForOneRange ==
    SummarizedOk =>
        \E a \in 1..(Len(history) + 1) : \E b \in (a - 1)..Len(history) :
            compacted = SubSeq(history, 1, a - 1) \o <<lastSummaryMessage>>
                        \o SubSeq(history, b + 1, Len(history))

\* C15: after a successful summarization the estimated usage of the returned
\* history is at most that of the input
C15_UsageNotIncreased ==
    SummarizedOk => calculateTotalUsage(compacted) <= calculateTotalUsage(history)

\* C16: the input messages that survive keep their relative order
C16_OrderKept ==
    cpc = "returned" =>
        \A j1, j2 \in 1..Len(compacted) :
            (j1 < j2 /\ compacted[j1].uid > 0 /\ compacted[j2].uid > 0)
                => compacted[j1].uid < compacted[j2].uid

\* index of the latest summary message of a history, 0 when it has none
LatestSummary(h) ==
    IF \E k \in 1..Len(h) : h[k].type = "summary"
    THEN CHOOSE k \in 1..Len(h) :
            /\ h[k].type = "summary"
            /\ \A j \in (k + 1)..Len(h) : h[j].type # "summary"
    ELSE 0

\* C17: the part of the history before its latest summary message is the same
\* after the pass as before
C17_BeforeSummaryImmutable ==
    (cpc = "returned" /\ LatestSummary(history) > 0) =>
        /\ Len(compacted) >= LatestSummary(history) - 1
        /\ SubSeq(compacted, 1, LatestSummary(history) - 1)
             = SubSeq(history, 1, LatestSummary(history) - 1)


Min(a, b) == IF a <= b THEN a ELSE b

\* overflow iff total > contextLimit - min(modelOutputLimit, configuredOutputCap)
OverflowAboveAvailable(total, contextLimit, modelOutputLimit, cap) ==
    total > contextLimit - Min(modelOutputLimit, cap)

\* C19: compaction is triggered exactly when the total usage is above the
\* context limit less the reserved output tokens
C19_TriggeredAboveAvailable ==
    cpc # "none" =>
        /\ triggered(history, maxTokens, maxOutputTokens)
             <=> OverflowAboveAvailable(calculateTotalUsage(history), maxTokens,
                                        maxOutputTokens, maxOutputTokens)
        /\ isOverflow(EmptyText, history)
             <=> OverflowAboveAvailable(estimateLength(joinedLength(history)), maxTokens,
                                        maxOutputTokens, maxOutputTokens)

\* history h with the content of message k replaced by text
WithContent(h, k, text) == [h EXCEPT ![k].content = text]

\* texts a content or an input is replaced by when it is made longer
LongerTexts == {Text(0, 5), Text(0, 9600), Text(9597, 0), Text(0, 40001), Text(0, 779985)}
OverflowInputs == {EmptyText, ShortText, Text(0, 819201)}

LargeOutput == Text(0, 1000000)

\* the text of a message of the session
contentText(m) ==
    IF m.role = "tool" /\ m.content = "tool output" THEN LargeOutput ELSE ShortText

sessionHistory(q) ==
    [k \in 1..Len(q) |-> CMsg(q[k].role, q[k].type, contentText(q[k]), k)]

\* C18: the LLM is not called in an iteration in which the history overflows
\* and no compaction pass was attempted
C18_CompactionBeforeLLMCall ==
    (pc = "awaitLLM" /\ isOverflow(EmptyText, sessionHistory(getMessages(queue))))
        => cpc # "none"


\* the texts the two estimates are compared on: the contents of the history
\* and the longer texts
EstimatedTexts == {history[k].content : k \in 1..Len(history)} \cup LongerTexts \cup {EmptyText}

\* C21: estimate is 0 for the empty text and non-decreasing in the length of
\* the text, whatever mix of CJK and other characters it holds
C21_EstimateMonotonicInLength ==
    cpc # "none" =>
        /\ estimate(EmptyText) = 0
        /\ estimateLength(length(EmptyText)) = 0
        /\ \A a \in EstimatedTexts : \A b \in EstimatedTexts :
              length(a) <= length(b) =>
                  /\ estimate(a) <= estimate(b)
                  /\ estimateLength(length(a)) <= estimateLength(length(b))


(***************************************************************************)
(* Agent.run when the LLM call need not complete                           *)
(***************************************************************************)
\* the continuations of run that wait for nothing outside the process, and
\* the tool call: BashTool.runCommand settles by its own timer
LocalStep ==
    \/ LoopHead
    \/ LoopExit
    \/ \E k \in 1..MaxBatch : ToolSettles(k)
    \/ AppendResult
    \/ MaxIterations
    \/ ReturnFinal

\* run awaits llmProvider.generate with no timer and no AbortSignal: nothing
\* makes the LLM call complete
HangSpec == Spec /\ WF_vars(LocalStep)

\* C22: no call blocks for ever: Agent.run returns even when the LLM call or a
\* tool call never completes on its own
C22_RunAlwaysReturns == (promise = "pending") ~> Returned


(***************************************************************************)
(* prune (docs/compaction-analysis.md): one pass over the messages of a     *)
(* session, from the last to the first                                     *)
(***************************************************************************)
MaxMsgs == 3                \* messages of the session prune reads

PRUNE_MINIMUM == 20000
PRUNE_PROTECT == 40000
RECENT_TURNS == 2
PRUNE_PROTECTED_TOOLS == {"skill"}

\* a message with one part; output is Token.estimate of the part's output
PMsg(role, turn, isSummary, tool, status, output) ==
    [role |-> role, turn |-> turn, summary |-> isSummary, tool |-> tool, status |-> status,
     output |-> output]

Undefined == -1             \* msg.info.turn is undefined

PruneMessages ==
    {PMsg("user", Undefined, FALSE, "none", "none", 0)}
    \cup {PMsg("assistant", t, FALSE, "bash", "completed", out) :
             t \in {Undefined, 0, 2}, out \in {15000, 30000}}
    \cup {PMsg("assistant", 2, TRUE, "bash", "completed", 30000),
          PMsg("assistant", 2, FALSE, "skill", "completed", 30000),
          PMsg("assistant", 2, FALSE, "bash", "running", 30000)}

\* the values the two thresholds are set to: those of the source and two others
PruneSettings ==
    {[minimum |-> PRUNE_MINIMUM, protect |-> PRUNE_PROTECT],
     [minimum |-> 50000, protect |-> PRUNE_PROTECT],
     [minimum |-> PRUNE_MINIMUM, protect |-> 10000]}

AgentUnused ==
    /\ provider = "openai"
    /\ maxLoop = DefaultMaxLoop
    /\ sessions = FALSE
    /\ queue = <<>>
    /\ pc = "idle"
    /\ runs = 0
    /\ i = 0
    /\ llmCalls = 0
    /\ llmInput = <<>>
    /\ llmOutcome = "none"
    /\ llmResponse = NoResponse
    /\ finalResponse = FALSE
    /\ tstate = <<>>
    /\ results = <<>>
    /\ executed = {}
    /\ appendIdx = 0
    /\ events = <<>>
    /\ promise = "none"
    /\ NoRun2
    /\ NoCompaction

\* prune is called: msgs = Session.getMessages, total = 0, turns = 0
InitPrune ==
    /\ AgentUnused
    /\ store = NoStore
    /\ registry = NoRegistry
    /\ bashProc = NoBashProc
    /\ inputHistory = NoInputHistory
    /\ mcpClient = NoMcpClient
    /\ cli = NoCli
    /\ \E n \in 0..MaxMsgs : \E msgs \in [1..n -> PruneMessages] : \E cfg \in PruneSettings :
          pruner = [pc |-> "scan", msgs |-> msgs, minimum |-> cfg.minimum,
                    protect |-> cfg.protect, msgIndex |-> n, total |-> 0, turns |-> 0,
                    compacted |-> {}]

restOfPrune == <<provider, maxLoop, sessions, queue, pc, runs, i, llmCalls, llmInput, llmOutcome,
                 llmResponse, finalResponse, tstate, results, executed, appendIdx, events,
                 promise, run2vars, compactVars, store, registry, bashProc, inputHistory, mcpClient,
     cli>>

\* turns after step 3.2 of the loop body
turnsAt(p) ==
    IF p.msgs[p.msgIndex].turn # Undefined THEN p.msgs[p.msgIndex].turn + 1 ELSE p.turns

\* the part of the message is a completed call of a tool that is not protected
prunable(msg) ==
    /\ msg.status = "completed"
    /\ msg.tool \notin PRUNE_PROTECTED_TOOLS

\* step 3.10: total > PRUNE_PROTECT marks the part as compacted
marks(p, total) == total > p.protect

\* one iteration of the loop over msgs, steps 3.1 to 3.10
PruneVisit ==
    /\ pruner.pc = "scan"
    /\ pruner.msgIndex >= 1
    /\ LET msg == pruner.msgs[pruner.msgIndex]
           next == [pruner EXCEPT !.msgIndex = @ - 1] IN
       pruner' =
          IF msg.role # "assistant" THEN next
          ELSE IF turnsAt(pruner) <= RECENT_TURNS
               THEN [next EXCEPT !.turns = turnsAt(pruner)]
          ELSE IF msg.summary
               THEN [pruner EXCEPT !.turns = turnsAt(pruner), !.pc = "afterLoop"]
          ELSE IF ~prunable(msg)
               THEN [next EXCEPT !.turns = turnsAt(pruner)]
          ELSE [next EXCEPT !.turns = turnsAt(pruner),
                            !.total = @ + msg.output,
                            !.compacted = IF marks(pruner, pruner.total + msg.output)
                                          THEN @ \cup {pruner.msgIndex} ELSE @]
    /\ UNCHANGED restOfPrune

\* msgIndex < 0: the loop is over
PruneLoopEnds ==
    /\ pruner.pc = "scan"
    /\ pruner.msgIndex = 0
    /\ pruner' = [pruner EXCEPT !.pc = "afterLoop"]
    /\ UNCHANGED restOfPrune

\* step 4: if (total < PRUNE_MINIMUM) return; and the end of the function
PruneReturns ==
    /\ pruner.pc = "afterLoop"
    /\ pruner' = [pruner EXCEPT !.pc = "returned"]
    /\ UNCHANGED restOfPrune

NextPrune ==
    \/ PruneVisit
    \/ PruneLoopEnds
    \/ PruneReturns

PruneSpec == InitPrune /\ [][NextPrune]_vars

MaxStored == 2              \* messages added to the session

StoredMessages == {userMessage("query"), finalMessage(Response("answer", <<>>))}

\* a SessionManager constructed over an empty repository
InitStore ==
    /\ AgentUnused
    /\ pruner = NoPruner
    /\ registry = NoRegistry
    /\ bashProc = NoBashProc
    /\ inputHistory = NoInputHistory
    /\ mcpClient = NoMcpClient
    /\ cli = NoCli
    /\ store = [rows |-> <<>>, got |-> <<>>, pc |-> "ready"]

restOfStore == <<provider, maxLoop, pc, runs, i, llmCalls, llmInput, llmOutcome,
                 llmResponse, finalResponse, tstate, results, executed, appendIdx, events,
                 promise, run2vars, compactVars, pruner, registry, bashProc, inputHistory, mcpClient,
     cli>>

\* SessionManager.addMessage, lines 80-82: queue.add(msg), then the call of
\* repository.save is awaited
StoreAddMessage ==
    /\ store.pc \notin {"none", "saving"}
    /\ Len(store.rows) < MaxStored
    /\ Len(queue) < MaxStored
    /\ \E msg \in StoredMessages : queue' = addMessage(queue, msg)
    /\ store' = [store EXCEPT !.pc = "saving"]
    /\ sessions' = sessions
    /\ UNCHANGED restOfStore

\* variant: the failure of repository.save is passed on to the caller
StoreSaveSettles_rethrow ==
    /\ store.pc = "saving"
    /\ \E saved \in BOOLEAN :
          store' = [store EXCEPT !.rows = IF saved THEN Append(@, queue[Len(queue)]) ELSE @,
                                 !.pc = IF saved THEN "added" ELSE "threw"]
    /\ UNCHANGED <<sessions, queue>>
    /\ UNCHANGED restOfStore
\* SessionManager.addMessage, lines 85-89: repository.save resolves, or it
\* rejects (MessageRepository.save rethrows what Message.create threw) and
\* the failure is caught and logged; addMessage completes either way
StoreSaveSettles ==
    /\ store.pc = "saving"
    /\ \E saved \in BOOLEAN :
          store' = [store EXCEPT !.rows = IF saved THEN Append(@, queue[Len(queue)]) ELSE @,
                                 !.pc = "added"]
    /\ UNCHANGED <<sessions, queue>>
    /\ UNCHANGED restOfStore

\* SessionManager.getOrCreateSession: a new session gets an empty queue; the
\* load from the repository is commented out
StoreGetOrCreateSession ==
    /\ store.pc \notin {"none", "saving"}
    /\ ~sessions
    /\ sessions' = TRUE
    /\ queue' = queue
    /\ store' = [store EXCEPT !.pc = "ready"]
    /\ UNCHANGED restOfStore

\* SessionManager.getMessages: getQueue(sessionId).getAll()
StoreGetMessages ==
    /\ store.pc \notin {"none", "saving"}
    /\ store' = [store EXCEPT !.got = getMessages(queue), !.pc = "got"]
    /\ UNCHANGED <<sessions, queue>>
    /\ UNCHANGED restOfStore

\* SessionManager.deleteSession: sessions.delete and queues.delete, then
\* repository.deleteBySession, which rethrows what Message.deleteMany threw
StoreDeleteSession ==
    /\ store.pc \notin {"none", "saving"}
    /\ sessions
    /\ sessions' = FALSE
    /\ queue' = <<>>
    /\ \E deleted \in BOOLEAN :
          store' = [store EXCEPT !.rows = IF deleted THEN <<>> ELSE @,
                                 !.pc = IF deleted THEN "deleted" ELSE "threw"]
    /\ UNCHANGED restOfStore

\* the process ends and a new one constructs its SessionManager over the same
\* repository: sessions and queues are new Maps
StoreRestart ==
    /\ store.pc \notin {"none", "saving"}
    /\ sessions' = FALSE
    /\ queue' = <<>>
    /\ store' = [store EXCEPT !.pc = "ready"]
    /\ UNCHANGED restOfStore

NextStore ==
    \/ StoreAddMessage
    \/ StoreSaveSettles
    \/ StoreGetOrCreateSession
    \/ StoreGetMessages
    \/ StoreDeleteSession
    \/ StoreRestart

StoreSpec == InitStore /\ [][NextStore]_vars

\* C24: getMessages returns the messages persisted for the session whenever
\* the in-memory queue of the session is empty
C24_LazyLoadsHistory ==
    (store.pc = "got" /\ queue = <<>>) => store.got = store.rows


(***************************************************************************)
(* ToolRegistry and McpManager.  A name is the sequence of its characters. *)
(***************************************************************************)
MaxRegistryCalls == 3       \* calls of register, connectServer and disconnectServer

\* the characters of [a-zA-Z0-9_-] that the names here are made of
LegalChars == {"a", "b", "f", "h", "s", "t", "_", "-"}

BashName == <<"b", "a", "s", "h">>
ServerNames == {<<"f">>, <<"f", "-", "s">>}
McpToolNames == {<<"t">>, <<"s", "_", "t">>}

\* .replace(/[^a-zA-Z0-9_-]/g, '_')
replaceIllegal(name) ==
    [k \in 1..Len(name) |-> IF name[k] \in LegalChars THEN name[k] ELSE "_"]

\* .replace(/-+/g, '_'): every run of hyphens becomes one underscore
RECURSIVE replaceHyphens(_)
replaceHyphens(name) ==
    IF name = <<>> THEN <<>>
    ELSE IF name[1] # "-" THEN <<name[1]>> \o replaceHyphens(Tail(name))
    ELSE IF Len(name) > 1 /\ name[2] = "-" THEN replaceHyphens(Tail(name))
    ELSE <<"_">> \o replaceHyphens(Tail(name))

\* .replace(/^_+|_+$/g, '')
RECURSIVE stripLeading(_)
stripLeading(name) ==
    IF name # <<>> /\ name[1] = "_" THEN stripLeading(Tail(name)) ELSE name

RECURSIVE stripTrailing(_)
stripTrailing(name) ==
    IF name # <<>> /\ name[Len(name)] = "_"
    THEN stripTrailing(SubSeq(name, 1, Len(name) - 1)) ELSE name

\* McpToolAdapter.sanitizeName
sanitizeName(name) == stripTrailing(stripLeading(replaceHyphens(replaceIllegal(name))))

\* the name an adapter is registered under: sanitizeName(`${serverName}_${tool.name}`)
adapterName(serverName, toolName) == sanitizeName(serverName \o <<"_">> \o toolName)

\* the name disconnectServer unregisters: `${serverName}/${tool.name}`
disconnectName(serverName, toolName) == serverName \o <<"/">> \o toolName

\* a tool object: its name, the server it was adapted from (<<"builtin">> for
\* the tools of the program) and a serial number standing for its identity
Tool(name, owner, serial) == [name |-> name, owner |-> owner, serial |-> serial]

has(tools, name) == \E t \in tools : t.name = name

\* ToolRegistry.unregister: tools.delete(name)
unregister(tools, name) == {t \in tools : t.name # name}

\* ToolRegistry.register: set the tools of the list one by one, throw at the
\* first name that is already there
RECURSIVE register(_, _)
register(tools, list) ==
    IF list = <<>> THEN [tools |-> tools, threw |-> FALSE]
    ELSE IF has(tools, list[1].name) THEN [tools |-> tools, threw |-> TRUE]
    ELSE register(tools \cup {list[1]}, Tail(list))

\* the lists of new tool objects register is called with
ToolLists(serial) ==
    {<<Tool(n, <<"builtin">>, serial)>> : n \in {BashName, <<"t">>}}
    \cup {<<Tool(n1, <<"builtin">>, serial), Tool(n2, <<"builtin">>, serial + 1)>> :
             n1 \in {BashName, <<"t">>}, n2 \in {BashName, <<"t">>}}

\* createToolAdapters: one adapter per tool of the server, in the order listed
adapters(serverName, toolNames, serial) ==
    [k \in 1..Len(toolNames) |->
        Tool(adapterName(serverName, toolNames[k]), serverName, serial + k - 1)]

\* what listTools of a server answers
ToolListings == {<<n>> : n \in McpToolNames} \cup {<<<<"t">>, <<"s", "_", "t">>>>}

\* the registry after the built-in tools were registered, no server connected
InitRegistry ==
    /\ AgentUnused
    /\ pruner = NoPruner
    /\ store = NoStore
    /\ bashProc = NoBashProc
    /\ inputHistory = NoInputHistory
    /\ mcpClient = NoMcpClient
    /\ cli = NoCli
    /\ registry = [pc |-> "ready", tools |-> {Tool(BashName, <<"builtin">>, 0)},
                   clients |-> {}, before |-> {}, threw |-> FALSE, server |-> <<>>,
                   calls |-> 0, serial |-> 1, info |-> {}, killed |-> {}, gone |-> {}]

restOfRegistry == <<provider, maxLoop, sessions, queue, pc, runs, i, llmCalls, llmInput,
                    llmOutcome, llmResponse, finalResponse, tstate, results, executed,
                    appendIdx, events, promise, run2vars, compactVars, pruner, store, bashProc,
                    inputHistory, mcpClient,
     cli>>

\* a call of ToolRegistry.register with a tool or a list of tools
RegisterTools ==
    /\ registry.pc # "none"
    /\ registry.calls < MaxRegistryCalls
    /\ \E list \in ToolLists(registry.serial) :
          registry' = [registry EXCEPT
                          !.pc = "registered",
                          !.before = registry.tools,
                          !.tools = register(registry.tools, list).tools,
                          !.threw = register(registry.tools, list).threw,
                          !.calls = @ + 1,
                          !.serial = @ + Len(list)]
    /\ UNCHANGED restOfRegistry

\* connectionInfo.set(serverName, {state, ...}) on the Map kept as a set of
\* entries, one per server name
setInfo(info, name, state) ==
    {e \in info : e.name # name} \cup {[name |-> name, state |-> state]}

\* McpManager.connectServer: client.connect and listTools, which may reject,
\* then clients.set, register the adapters, updateConnectionInfo; the catch
\* records the error state and rethrows
ConnectServer ==
    /\ registry.pc # "none"
    /\ registry.calls < MaxRegistryCalls
    /\ \E name \in ServerNames :
          /\ \A c \in registry.clients : c.name # name
          /\ \/ registry' = [registry EXCEPT
                          !.pc = "connected",
                          !.server = name,
                          !.before = registry.tools,
                          !.threw = TRUE,
                          !.info = setInfo(@, name, "error"),
                          !.gone = @ \ {name},
                          !.calls = @ + 1]
             \/ \E listing \in ToolListings :
                   registry' = [registry EXCEPT
                          !.pc = "connected",
                          !.server = name,
                          !.clients = @ \cup {[name |-> name, tools |-> listing]},
                          !.before = registry.tools,
                          !.tools = register(registry.tools,
                                             adapters(name, listing, registry.serial)).tools,
                          !.threw = register(registry.tools,
                                             adapters(name, listing, registry.serial)).threw,
                          !.info = setInfo(@, name,
                                      IF register(registry.tools,
                                                  adapters(name, listing, registry.serial)).threw
                                      THEN "error" ELSE "connected"),
                          !.gone = @ \ {name},
                          !.calls = @ + 1,
                          !.serial = @ + Len(listing)]
    /\ UNCHANGED restOfRegistry

RECURSIVE unregisterAll(_, _, _)
unregisterAll(tools, serverName, toolNames) ==
    IF toolNames = <<>> THEN tools
    ELSE unregisterAll(unregister(tools, disconnectName(serverName, toolNames[1])),
                       serverName, Tail(toolNames))

\* McpManager.disconnectServer: unregister the tools of the client, disconnect
\* (the process is killed, the state change to disconnected is recorded by
\* the stateChanged listener), clients.delete, connectionInfo.delete
DisconnectServer ==
    /\ registry.pc # "none"
    /\ registry.calls < MaxRegistryCalls
    /\ \E c \in registry.clients :
          registry' = [registry EXCEPT
                          !.pc = "disconnected",
                          !.server = c.name,
                          !.clients = @ \ {c},
                          !.before = registry.tools,
                          !.tools = unregisterAll(registry.tools, c.name, c.tools),
                          !.threw = FALSE,
                          !.info = {e \in @ : e.name # c.name},
                          !.killed = @ \cup {c.name},
                          !.gone = @ \cup {c.name},
                          !.calls = @ + 1]
    /\ UNCHANGED restOfRegistry

\* the 'close' handler of a killed server process: setState(Disconnected),
\* whose stateChanged listener calls updateConnectionInfo
ProcessCloses ==
    /\ registry.pc # "none"
    /\ \E name \in registry.killed :
          registry' = [registry EXCEPT
                          !.pc = "closed",
                          !.server = name,
                          !.threw = FALSE,
                          !.info = setInfo(@, name, "disconnected"),
                          !.killed = @ \ {name}]
    /\ UNCHANGED restOfRegistry

\* McpManager.refreshServerTools, the toolsChanged listener: unregister the
\* old tools, listTools, register the adapters of the new list,
\* updateConnectionInfo
RefreshServerTools ==
    /\ registry.pc # "none"
    /\ registry.calls < MaxRegistryCalls
    /\ \E c \in registry.clients : \E listing \in ToolListings :
          LET unregistered == unregisterAll(registry.tools, c.name, c.tools)
              registered == register(unregistered, adapters(c.name, listing, registry.serial))
          IN
          registry' = [registry EXCEPT
                          !.pc = "refreshed",
                          !.server = c.name,
                          !.clients = (@ \ {c}) \cup {[name |-> c.name, tools |-> listing]},
                          !.before = registry.tools,
                          !.tools = registered.tools,
                          !.threw = registered.threw,
                          !.info = IF registered.threw THEN @
                                   ELSE setInfo(@, c.name, "connected"),
                          !.calls = @ + 1,
                          !.serial = @ + Len(listing)]
    /\ UNCHANGED restOfRegistry

NextRegistry ==
    \/ RegisterTools
    \/ ConnectServer
    \/ DisconnectServer
    \/ ProcessCloses
    \/ RefreshServerTools

RegistrySpec == InitRegistry /\ [][NextRegistry]_vars

\* C25: after disconnectServer(name) no tool adapted from that server is
\* registered, and the tools of the other servers and the built-in tools are
C25_DisconnectUnregisters ==
    registry.pc = "disconnected" =>
        /\ \A t \in registry.tools : t.owner # registry.server
        /\ \A t \in registry.before : t.owner # registry.server => t \in registry.tools

\* C26: a register call that throws 'already registered' leaves the registry
\* as it was before the call, also when it was given a list
C26_FailedRegisterChangesNothing ==
    (registry.pc = "registered" /\ registry.threw) => registry.tools = registry.before


(***************************************************************************)
(* BashTool.execute and runCommand: the shell spawned for the command, a    *)
(* job the command may leave in the background, the timer and the promise  *)
(***************************************************************************)
\* what the command is: rejected by the parser, run by the shell in the
\* foreground, or a shell that starts a background job (cmd &) and exits
CommandKinds == {"invalid", "foreground", "background"}

\* execute is called; spawn has started the shell and the timer is set
InitBash ==
    /\ AgentUnused
    /\ pruner = NoPruner
    /\ store = NoStore
    /\ registry = NoRegistry
    /\ inputHistory = NoInputHistory
    /\ mcpClient = NoMcpClient
    /\ cli = NoCli
    /\ \E kind \in CommandKinds :
          bashProc = [pc |-> "execute", kind |-> kind, shell |-> "none", job |-> "none",
                      stdout |-> "", stderr |-> "", timer |-> "none", completed |-> FALSE,
                      promise |-> "pending", value |-> "", killed |-> FALSE,
                      elapsed |-> FALSE, runningAtTimeout |-> FALSE]

restOfBash == <<provider, maxLoop, sessions, queue, pc, runs, i, llmCalls, llmInput,
                llmOutcome, llmResponse, finalResponse, tstate, results, executed,
                appendIdx, events, promise, run2vars, compactVars, pruner, store, registry,
                inputHistory, mcpClient,
     cli>>

\* resolve or reject of the promise of runCommand: only the first call settles it
settle(b, state, value) ==
    IF b.promise = "pending" THEN [b EXCEPT !.promise = state, !.value = value] ELSE b

\* execute, lines 65-81: a command the parser finds invalid is not run
ExecuteInvalid ==
    /\ bashProc.pc = "execute"
    /\ bashProc.kind = "invalid"
    /\ bashProc' = [settle(bashProc, "resolved", "Command not executed due to syntax error")
                       EXCEPT !.pc = "returned"]
    /\ UNCHANGED restOfBash

\* runCommand, lines 198-204 and 230-239: spawn the shell, set the timer
Spawn ==
    /\ bashProc.pc = "execute"
    /\ bashProc.kind # "invalid"
    /\ bashProc' = [bashProc EXCEPT !.pc = "run", !.shell = "running", !.timer = "armed",
                                    !.job = IF bashProc.kind = "background"
                                            THEN "running" ELSE "none"]
    /\ UNCHANGED restOfBash

\* lines 206-212: data on stdout or stderr while a process holds the pipes
OutputData ==
    /\ bashProc.pc = "run"
    /\ bashProc.shell = "running" \/ bashProc.job = "running"
    /\ \/ bashProc.stdout = "" /\ bashProc' = [bashProc EXCEPT !.stdout = "out"]
       \/ bashProc.stderr = "" /\ bashProc' = [bashProc EXCEPT !.stderr = "err"]
    /\ UNCHANGED restOfBash

\* the shell ends by itself or by the signal: 'exit' clears the timer (line 239)
ShellExits ==
    /\ bashProc.pc = "run"
    /\ bashProc.shell = "running"
    /\ \E code \in {0, 1} :
          bashProc' = [bashProc EXCEPT
                          !.shell = IF bashProc.killed THEN "signalled"
                                    ELSE IF code = 0 THEN "exit0" ELSE "exit1",
                          !.timer = IF @ = "armed" THEN "cleared" ELSE @]
    /\ UNCHANGED restOfBash

\* the background job ends and lets go of the pipes
JobExits ==
    /\ bashProc.pc = "run"
    /\ bashProc.job = "running"
    /\ bashProc' = [bashProc EXCEPT !.job = "done"]
    /\ UNCHANGED restOfBash

\* lines 214-221: 'close', once the shell has ended and no process holds the
\* pipes: completed = true, resolve on code 0, reject otherwise
Close ==
    /\ bashProc.pc = "run"
    /\ bashProc.shell \in {"exit0", "exit1", "signalled"}
    /\ bashProc.job # "running"
    /\ bashProc' =
          [(IF bashProc.shell = "exit0"
            THEN settle(bashProc, "resolved",
                        IF bashProc.stdout # "" THEN bashProc.stdout
                        ELSE "Command exited with code 0")
            ELSE settle(bashProc, "rejected",
                        IF bashProc.stderr # "" THEN bashProc.stderr
                        ELSE "Command failed with code"))
           EXCEPT !.completed = TRUE, !.pc = "closed"]
    /\ UNCHANGED restOfBash

\* the time of the timeout passes; lines 230-236: the callback of the timer,
\* unless 'exit' has cleared it: kill the shell and resolve with the text
TimeoutElapses ==
    /\ bashProc.pc \in {"run", "closed"}
    /\ ~bashProc.elapsed
    /\ LET b == [bashProc EXCEPT
                    !.elapsed = TRUE,
                    !.runningAtTimeout = bashProc.shell = "running" \/ bashProc.job = "running"]
       IN bashProc' =
            IF bashProc.timer = "armed" /\ ~bashProc.completed
            THEN [settle(b, "resolved", "Error: Command timed out")
                     EXCEPT !.timer = "fired", !.killed = TRUE]
            ELSE b
    /\ UNCHANGED restOfBash

NextBash ==
    \/ ExecuteInvalid
    \/ Spawn
    \/ OutputData
    \/ ShellExits
    \/ JobExits
    \/ Close
    \/ TimeoutElapses

BashSpec == InitBash /\ [][NextBash]_vars

\* C27: a command still running when the timeout elapses is killed and
\* execute resolves with the 'timed out' text; it neither rejects nor stays
\* pending
C27_TimeoutKillsAndResolves ==
    (bashProc.pc # "none" /\ bashProc.elapsed /\ bashProc.runningAtTimeout) =>
        /\ bashProc.killed
        /\ bashProc.promise = "resolved"
        /\ bashProc.value = "Error: Command timed out"


(***************************************************************************)
(* InputHistory (cli/utils): add                                           *)
(***************************************************************************)
MaxAccepted == 102          \* entries accepted by add in one behaviour

maxSize == 100

\* the lines typed, each the sequence of its characters
TypedInputs == {<<"a">>, <<" ", "a", " ">>, <<"b">>, <<"b", " ">>, <<>>, <<" ", " ">>}

\* String.trim of a line whose only whitespace is the space
RECURSIVE trimStart(_)
trimStart(input) ==
    IF input # <<>> /\ input[1] = " " THEN trimStart(Tail(input)) ELSE input

RECURSIVE trimEnd(_)
trimEnd(input) ==
    IF input # <<>> /\ input[Len(input)] = " "
    THEN trimEnd(SubSeq(input, 1, Len(input) - 1)) ELSE input

trim(input) == trimEnd(trimStart(input))

\* variant: the history is never shortened
historyAdd_noShift(h, input) ==
    IF trim(input) = <<>> THEN h
    ELSE IF h # <<>> /\ h[Len(h)] = trim(input) THEN h
    ELSE Append(h, trim(input))
\* InputHistory.add: skip an empty or repeated input, push, shift above maxSize
historyAdd(h, input) ==
    IF trim(input) = <<>> THEN h
    ELSE IF h # <<>> /\ h[Len(h)] = trim(input) THEN h
    ELSE IF Len(h) + 1 > maxSize THEN Tail(Append(h, trim(input)))
    ELSE Append(h, trim(input))

\* a new InputHistory
InitInputHistory ==
    /\ AgentUnused
    /\ pruner = NoPruner
    /\ store = NoStore
    /\ registry = NoRegistry
    /\ bashProc = NoBashProc
    /\ inputHistory = [pc |-> "ready", history |-> <<>>, index |-> -1, accepted |-> <<>>]
    /\ mcpClient = NoMcpClient
    /\ cli = NoCli

restOfInputHistory == <<provider, maxLoop, sessions, queue, pc, runs, i, llmCalls, llmInput,
                        llmOutcome, llmResponse, finalResponse, tstate, results, executed,
                        appendIdx, events, promise, run2vars, compactVars, pruner, store,
                        registry, bashProc, mcpClient, cli>>

\* the entries entered so far that are neither blank nor a repetition of the
\* entry entered just before
acceptedAfter(acc, input) ==
    IF input = <<>> \/ (\A k \in 1..Len(input) : input[k] = " ") THEN acc
    ELSE IF acc # <<>> /\ acc[Len(acc)] = SelectSeq(input, LAMBDA c : c # " ") THEN acc
    ELSE Append(acc, SelectSeq(input, LAMBDA c : c # " "))

\* a call of add; index is set only when the input is pushed
HistoryAdd ==
    /\ inputHistory.pc # "none"
    /\ Len(inputHistory.accepted) < MaxAccepted
    /\ \E input \in TypedInputs :
          inputHistory' =
             [inputHistory EXCEPT
                 !.history = historyAdd(@, input),
                 !.index = IF historyAdd(inputHistory.history, input) = inputHistory.history
                           THEN @ ELSE Len(historyAdd(inputHistory.history, input)),
                 !.accepted = acceptedAfter(@, input)]
    /\ UNCHANGED restOfInputHistory

NextInputHistory == HistoryAdd

InputHistorySpec == InitInputHistory /\ [][NextInputHistory]_vars

\* C28: after any sequence of add calls the history holds at most 100
\* entries, the most recently accepted ones in the order entered, none empty
\* and no two adjacent ones equal
C28_HistoryBounded ==
    inputHistory.pc # "none" =>
        LET h == inputHistory.history
            acc == inputHistory.accepted IN
        /\ Len(h) <= 100
        /\ h = SubSeq(acc, IF Len(acc) > 100 THEN Len(acc) - 99 ELSE 1, Len(acc))
        /\ \A k \in 1..Len(h) : h[k] # <<>>
        /\ \A k \in 1..(Len(h) - 1) : h[k] # h[k + 1]

\* more than 100 entries were accepted: the oldest have been dropped
C28_Witness ==
    /\ inputHistory.pc # "none"
    /\ Len(inputHistory.accepted) > 100
    /\ Len(inputHistory.history) = 100
    /\ inputHistory.history[100] = inputHistory.accepted[Len(inputHistory.accepted)]


(***************************************************************************)
(* Lifecycle events of a run                                               *)
(***************************************************************************)
\* the positions of events of the given names
EventsNamed(names) == {k \in 1..Len(events) : events[k].name \in names}

C29_EventsOfRun ==
    /\ promise = "pending" => EventsNamed({"end"}) = {}
    /\ Returned =>
          /\ Cardinality(EventsNamed({"end"})) = 1
          /\ events[Len(events)].name = "end"
          /\ Cardinality(EventsNamed({"success", "failure"})) = 1
          /\ \A k \in EventsNamed({"success", "failure"}) : k < Len(events)
          /\ (EventsNamed({"success"}) # {}) <=> (promise # "null")

UnrepairableResponse ==
    OpenAIGenerate([kind |-> "ok", content |-> "tip",
                    tool_calls |-> <<ToolCall("c1", "bash", "garbage")>>])

\* C30: when the API response holds a tool call whose arguments neither parse
\* nor can be repaired, the run continues: the response is not taken as the
\* final answer of the run, its call is answered by a tool message and the
\* LLM is called again (an iteration is left: i < maxLoop)
C30_UnrepairableArgumentsContinue ==
    (provider = "openai" /\ llmOutcome = "ok" /\ llmResponse = UnrepairableResponse
        /\ i < maxLoop) =>
        /\ ~finalResponse
        /\ promise # UnrepairableResponse.content
        /\ queue[Len(queue)].role # "assistant" \/ queue[Len(queue)].tool_calls # <<>>


(***************************************************************************)
(* compact on histories of tool-call turns                                 *)
(***************************************************************************)
\* a message of a turn: the assistant's tool_call message lists the calls,
\* the tool message names the call it answers
TMsg(role, type, content, tool_call_id, tool_calls) ==
    [role |-> role, type |-> type, content |-> content, uid |-> 0,
     tool_call_id |-> tool_call_id, tool_calls |-> tool_calls]

TurnMessages ==
    {TMsg("system", "none", ShortText, "none", <<>>)}
    \cup {TMsg("user", "none", c, "none", <<>>) : c \in {ShortText, CjkText}}
    \cup {TMsg("assistant", "tool_call", ShortText, "none", <<ToolCall(id, "bash", "{ok}")>>) :
             id \in Ids}
    \cup {TMsg("tool", "tool", MidText, id, <<>>) : id \in Ids}
    \cup {TMsg("tool", "tool", HugeText, "c1", <<>>)}
    \cup {TMsg("assistant", "none", ShortText, "none", <<>>)}

TurnHistories ==
    UNION {{[k \in 1..n |-> [h[k] EXCEPT !.uid = k]] : h \in [1..n -> TurnMessages]} :
              n \in 0..MaxHist}

\* a Compaction and the history of a session with tool calls
InitTurns ==
    /\ provider = "openai"
    /\ maxLoop = DefaultMaxLoop
    /\ sessions = FALSE
    /\ queue = <<>>
    /\ pc = "idle"
    /\ runs = 0
    /\ i = 0
    /\ llmCalls = 0
    /\ llmInput = <<>>
    /\ llmOutcome = "none"
    /\ llmResponse = NoResponse
    /\ finalResponse = FALSE
    /\ tstate = <<>>
    /\ results = <<>>
    /\ executed = {}
    /\ appendIdx = 0
    /\ events = <<>>
    /\ promise = "none"
    /\ NoRun2
    /\ NoComponents
    /\ \E cfg \in CompactionConfigs :
          /\ maxTokens = cfg.maxTokens
          /\ maxOutputTokens = cfg.maxOutputTokens
    /\ history \in TurnHistories
    /\ cpc = "start"
    /\ summary = NoSummary
    /\ lastSummaryMessage = NoMessage
    /\ compacted = <<>>

TurnSpec == InitTurns /\ [][NextCompact]_vars

\* every tool message of h comes after an assistant message listing its call
Answered(h) ==
    \A k \in 1..Len(h) :
        h[k].role = "tool" =>
            \E j \in 1..(k - 1) :
                /\ h[j].role = "assistant" /\ h[j].type = "tool_call"
                /\ \E n \in 1..Len(h[j].tool_calls) : h[j].tool_calls[n].id = h[k].tool_call_id

\* C31: if every tool-result message of the input history is preceded by an
\* assistant message listing its tool_call_id, the same holds in the history
\* compact returns
C31_ToolResultsKeepTheirCalls ==
    (cpc = "returned" /\ Answered(history)) => Answered(compacted)


(***************************************************************************)
(* The protected tail of compact                                           *)
(***************************************************************************)
\* the messages whose role is not system
NotSystemRole(h) == SelectSeq(h, LAMBDA m : m.role # "system")

\* a history as compact leaves it and the session extends it: a summary is
\* the first of the messages that are not system prompts
SummaryFirst(h) ==
    \A k \in 1..Len(otherMessages(h)) : otherMessages(h)[k].type = "summary" => k = 1

C33_InputNotModified ==
    [][/\ history' = history
       /\ compacted' # compacted => (cpc' = "returned" /\ cpc # "returned")]_vars

\* compact returned a history that differs from its input, which is as it was
C33_Witness ==
    /\ SummarizedOk
    /\ compacted # history
    /\ Len(compacted) = Len(systemMessages(history)) + 1 + KEEP_RECENT_COUNT
    /\ Len(history) = MaxHist


(***************************************************************************)
(* SessionManager and the failures of the repository                       *)
(***************************************************************************)
\* C34: addMessage always appends the message to the in-memory history and
\* completes normally, also when saving it to the repository fails
C34_AddMessageSurvivesSaveFailure ==
    [][/\ store'.pc = "saving" =>
             (Len(queue') = Len(queue) + 1 /\ SubSeq(queue', 1, Len(queue)) = queue)
       /\ store.pc = "saving" => (store'.pc = "added" /\ queue' = queue)]_vars

\* two messages were added, neither was saved, both are in the queue
C34_Witness ==
    /\ store.pc = "added"
    /\ Len(queue) = 2
    /\ store.rows = <<>>

\* C35: after deleteSession has returned or thrown, the in-memory session
\* and its persisted messages are either both gone or both still there
C35_DeleteIsAllOrNothing ==
    /\ store.pc = "deleted" => (~sessions /\ queue = <<>> /\ store.rows = <<>>)
    /\ store.pc = "threw" =>
          \/ ~sessions /\ queue = <<>> /\ store.rows = <<>>
          \/ sessions /\ store.rows # <<>>


(***************************************************************************)
(* McpManager: refresh, failed connections, connection information         *)
(***************************************************************************)
\* the names the tools adapted from a server are registered under
RegisteredOf(serverName) == {t.name : t \in {u \in registry.tools : u.owner = serverName}}

\* C36: after a tools/list_changed notification has been processed, the
\* registry holds exactly the adapters of the server's new tool list and the
\* refresh completed without an error
C36_RefreshReplacesTools ==
    registry.pc = "refreshed" =>
        /\ ~registry.threw
        /\ \A c \in registry.clients :
              c.name = registry.server =>
                 RegisteredOf(c.name) = {adapterName(c.name, c.tools[k]) : k \in 1..Len(c.tools)}
        /\ \A t \in registry.before : t.owner # registry.server => t \in registry.tools

\* C37: if connectServer throws, the server is not among the connected
\* clients and none of its tools is registered
C37_FailedConnectLeavesNothing ==
    (registry.pc = "connected" /\ registry.threw) =>
        /\ \A c \in registry.clients : c.name # registry.server
        /\ RegisteredOf(registry.server) = {}

\* C39: after disconnectServer(name) the manager keeps no connection
\* information for the server until connectServer is called for it again
C39_NoInfoAfterDisconnect ==
    registry.pc # "none" =>
        \A name \in registry.gone : \A e \in registry.info : e.name # name


(***************************************************************************)
(* McpClient: requests, responses, timeouts and the end of the process     *)
(***************************************************************************)
MaxRequests == 3            \* requests sent by one client

\* a client after connect: the server process runs, no request is pending.
\* process is "running", "exited" (it ended by itself, this.process still
\* refers to it), "killed" (disconnect killed it, this.process is null and
\* its 'close' is still to come) or "null"
InitClient ==
    /\ AgentUnused
    /\ pruner = NoPruner
    /\ store = NoStore
    /\ registry = NoRegistry
    /\ bashProc = NoBashProc
    /\ inputHistory = NoInputHistory
    /\ cli = NoCli
    /\ mcpClient = [pc |-> "ready", process |-> "running", requestId |-> 0,
                    pendingRequests |-> {}, timers |-> {},
                    promise |-> [id \in 1..MaxRequests |-> "none"], late |-> {}]

restOfClient == <<provider, maxLoop, sessions, queue, pc, runs, i, llmCalls, llmInput,
                  llmOutcome, llmResponse, finalResponse, tstate, results, executed,
                  appendIdx, events, promise, run2vars, compactVars, pruner, store, registry,
                  bashProc, inputHistory, cli>>

\* resolve or reject called on the promises of ids: a pending promise is
\* settled, a call on a settled one has no effect and is noted in late
settleRequests(c, ids, state) ==
    [c EXCEPT !.promise = [id \in 1..MaxRequests |->
                              IF id \in ids /\ c.promise[id] = "pending" THEN state
                              ELSE c.promise[id]],
              !.late = @ \cup {id \in ids : c.promise[id] # "pending"}]

\* rejectAllPendingRequests: clearTimeout and reject for every entry, clear
rejectAllPendingRequests(c) ==
    [settleRequests(c, c.pendingRequests, "rejected") EXCEPT
        !.timers = @ \ c.pendingRequests,
        !.pendingRequests = {}]

\* sendRequest: new id, setTimeout, pendingRequests.set, sendMessage, which
\* throws inside the promise's executor when there is no process
SendRequest ==
    /\ mcpClient.pc # "none"
    /\ mcpClient.requestId < MaxRequests
    /\ LET id == mcpClient.requestId + 1
           sent == [mcpClient EXCEPT !.requestId = id,
                                     !.timers = @ \cup {id},
                                     !.pendingRequests = @ \cup {id},
                                     !.promise[id] = "pending"]
       IN mcpClient' = IF mcpClient.process \in {"killed", "null"}
                       THEN settleRequests(sent, {id}, "rejected")
                       ELSE sent
    /\ UNCHANGED restOfClient

\* handleResponse: a line with an id arrives on stdout; without an entry for
\* the id nothing is done
HandleResponse ==
    /\ mcpClient.pc # "none"
    /\ mcpClient.process = "running"
    /\ \E id \in 1..mcpClient.requestId : \E error \in BOOLEAN :
          mcpClient' =
             IF id \in mcpClient.pendingRequests
             THEN [settleRequests(mcpClient, {id}, IF error THEN "rejected" ELSE "resolved")
                      EXCEPT !.timers = @ \ {id}, !.pendingRequests = @ \ {id}]
             ELSE mcpClient
    /\ UNCHANGED restOfClient

\* the callback of setTimeout in sendRequest: pendingRequests.delete, reject
RequestTimeout ==
    /\ mcpClient.pc # "none"
    /\ \E id \in mcpClient.timers :
          mcpClient' = [settleRequests(mcpClient, {id}, "rejected")
                           EXCEPT !.timers = @ \ {id}, !.pendingRequests = @ \ {id}]
    /\ UNCHANGED restOfClient

\* the 'close' and 'error' handlers of the process: setState and
\* rejectAllPendingRequests
ProcessEnds ==
    /\ mcpClient.pc # "none"
    /\ mcpClient.process \in {"running", "killed"}
    /\ mcpClient' = [rejectAllPendingRequests(mcpClient) EXCEPT
                        !.process = IF @ = "running" THEN "exited" ELSE "null"]
    /\ UNCHANGED restOfClient

\* McpClient.disconnect: kill the process, this.process = null, setState,
\* rejectAllPendingRequests
ClientDisconnect ==
    /\ mcpClient.pc # "none"
    /\ mcpClient.process \in {"running", "exited"}
    /\ mcpClient' = [rejectAllPendingRequests(mcpClient) EXCEPT
                        !.process = IF @ = "running" THEN "killed" ELSE "null"]
    /\ UNCHANGED restOfClient

NextClient ==
    \/ SendRequest
    \/ HandleResponse
    \/ RequestTimeout
    \/ ProcessEnds
    \/ ClientDisconnect

ClientSpec == InitClient /\ [][NextClient]_vars

\* C38: every request is settled exactly once, and once it is settled its
\* entry is not in the pending map and its timer is cancelled, so that no
\* later response or timeout acts on it
C38_SettledOnceAndForgotten ==
    mcpClient.pc # "none" =>
        /\ mcpClient.late = {}
        /\ \A id \in 1..mcpClient.requestId :
              mcpClient.promise[id] \in {"resolved", "rejected"} =>
                  (id \notin mcpClient.pendingRequests /\ id \notin mcpClient.timers)


(***************************************************************************)
(* CLI: the loop of start, handleInput and stop                            *)
(***************************************************************************)
MaxInputs == 3              \* lines read by the loop

\* the lines typed: blank, the /exit command, another command, a chat
\* message, or the prompt is cancelled
InputKinds == {"blank", "exit", "command", "chat", "cancelled"}

\* a new CLI: running = false
InitCli ==
    /\ AgentUnused
    /\ pruner = NoPruner
    /\ store = NoStore
    /\ registry = NoRegistry
    /\ bashProc = NoBashProc
    /\ inputHistory = NoInputHistory
    /\ mcpClient = NoMcpClient
    /\ cli = [pc |-> "new", running |-> FALSE, context |-> FALSE, kind |-> "none",
              inputs |-> 0, stopped |-> FALSE, readAfterStop |-> FALSE]

restOfCli == <<provider, maxLoop, sessions, queue, pc, runs, i, llmCalls, llmInput,
               llmOutcome, llmResponse, finalResponse, tstate, results, executed,
               appendIdx, events, promise, run2vars, compactVars, pruner, store, registry,
               bashProc, inputHistory, mcpClient>>

\* start, lines 42-43
CliStart ==
    /\ cli.pc = "new"
    /\ cli' = [cli EXCEPT !.running = TRUE, !.pc = "loopHead"]
    /\ UNCHANGED restOfCli

\* while (this.running): getInput is called, or start returns
CliLoopHead ==
    /\ cli.pc = "loopHead"
    /\ cli' = IF cli.running /\ cli.inputs < MaxInputs
              THEN [cli EXCEPT !.pc = "reading", !.inputs = @ + 1,
                               !.readAfterStop = @ \/ cli.stopped]
              ELSE IF cli.running THEN cli
              ELSE [cli EXCEPT !.pc = "ended"]
    /\ UNCHANGED restOfCli

\* getInput settles: a blank line continues, a cancelled prompt shuts down,
\* any other line enters handleInput, which copies running into the context
\* and awaits executeCommand
CliInput ==
    /\ cli.pc = "reading"
    /\ \E kind \in InputKinds :
          cli' = IF kind = "blank" THEN [cli EXCEPT !.pc = "loopHead"]
                 ELSE IF kind = "cancelled"
                      THEN [cli EXCEPT !.running = FALSE, !.pc = "exited"]
                 ELSE [cli EXCEPT !.pc = "executing", !.kind = kind, !.context = cli.running]
    /\ UNCHANGED restOfCli

\* executeCommand settles: /exit has set context.running.value to false;
\* handleInput writes the context back to this.running, then awaits
\* handleChat when the line was no command; a handler that throws is caught
\* by the loop of start
CliCommandSettles ==
    /\ cli.pc = "executing"
    /\ \E threw \in BOOLEAN :
          /\ threw => cli.kind = "command"
          /\ cli' = IF threw THEN [cli EXCEPT !.pc = "loopHead"]
                    ELSE [cli EXCEPT !.context = IF cli.kind = "exit" THEN FALSE ELSE @,
                                     !.running = IF cli.kind = "exit" THEN FALSE ELSE cli.context,
                                     !.pc = IF cli.kind = "chat" THEN "chat" ELSE "loopHead"]
    /\ UNCHANGED restOfCli

\* handleChat settles (agent.run returned or threw)
CliChatSettles ==
    /\ cli.pc = "chat"
    /\ cli' = [cli EXCEPT !.pc = "loopHead"]
    /\ UNCHANGED restOfCli

\* CLI.stop, called from outside the loop while start is at one of its awaits
CliStop ==
    /\ cli.pc \in {"reading", "executing", "chat"}
    /\ ~cli.stopped
    /\ cli' = [cli EXCEPT !.running = FALSE, !.stopped = TRUE]
    /\ UNCHANGED restOfCli

NextCli ==
    \/ CliStart
    \/ CliLoopHead
    \/ CliInput
    \/ CliCommandSettles
    \/ CliChatSettles
    \/ CliStop

CliSpec == InitCli /\ [][NextCli]_vars

\* C40: once stop() has been called the loop reads no further input and ends
\* when the input being handled has completed, also when stop() is called
\* while a command is being executed
C40_StopEndsTheLoop ==
    cli.pc # "none" =>
        /\ ~cli.readAfterStop
        /\ (cli.stopped /\ cli.pc = "loopHead") => ~cli.running

====
